---- MODULE Spec2Model ----
(***************************************************************************)
(* WallofX: a Telegram bot that renders a tweet as a PNG image.            *)
(*                                                                         *)
(*   src/wallofx/src/image/generator.py   ImageGenerator                   *)
(*   src/wallofx/src/twitter/extractor.py TweetExtractor                   *)
(*   src/wallofx/src/bot/handler.py       WallOfXBot                       *)
(*                                                                         *)
(* Strings are sequences of one-character strings.  Python's half-open     *)
(* slices s[a:b] are SubSeq(s, a+1, b) on the 1-indexed sequences here.    *)
(***************************************************************************)
EXTENDS Integers, Sequences, FiniteSets, TLC

VARIABLES
    \* ---- ImageGenerator._parse_text_entities, one loop iteration per step
    line,           \* the argument `text`
    remaining,      \* the local `remaining`
    parts,          \* the local `parts`: sequence of <<content, kind>>
    ppc,            \* "idle" | "loop" | "done"
    \* ---- ImageGenerator._render_text, one iteration of `for line in lines`
    \*      per step
    rargs,          \* the arguments: [text, x, y, max_width, font]
    rlines,         \* the lines of `lines` not yet iterated over
    ry,             \* the local `y`
    draws,          \* the draw.text calls made so far, in call order
    rpc,            \* "idle" | "lines" | "returned"
    \* ---- ImageGenerator.generate, one call; its steps end at the awaits
    tweet,          \* the argument tweet_data: [text, images, author_avatar]
    gpc,            \* "idle" | "start" | "avatar" | "image" | "footer" |
                    \* "save" | "returned" | "raised"
    current_y,      \* the local current_y
    avatar,         \* what was drawn for the avatar: "none" | "image" | "initials"
    fetched,        \* results of the image fetches so far: "None" or a size
    pastes,         \* the img.paste calls of the media section, in call order
    sections,       \* the sections drawn so far: [name, y] with y the cursor
                    \* at which the section ended
    gerror,         \* the exception that ended the call, or "none"
    gresult,        \* the returned filepath, or NoPath
    call,           \* the number of this generate call on the shared instance
    results,        \* the calls that returned: [call, path], in return order
    \* ---- WallOfXBot.process_tweet for the message being handled, one step
    \*      per await; the Application dispatches updates one at a time
    tweet_url,      \* the argument tweet_url
    bpc,            \* "idle" | "extract" | "http" | "nodata" | "creating" |
                    \* "generate" | "delete" | "photo" | "except"
    status,         \* the status message: "none", its text, or "deleted"
    tweet_data,     \* the local tweet_data: [state, data] with state
                    \* "pending" (not yet assigned) | "None" | "data"
    http_requests,  \* GET requests extract issued for this message
    generate_calls, \* generate calls made for this message
    photos,         \* reply_photo calls that succeeded, all messages: [msg, path, by, state]
    outcome,        \* how process_tweet ended: "running" | "returned" | "raised"
    msg,            \* the number of the message being handled
    \* ---- ImageGenerator._format_number, one call
    num,            \* the argument
    formatted,      \* the returned string
    fpc,            \* "idle" | "call" | "returned"
    \* ---- ImageGenerator._get_initials, one call
    author_name,    \* the argument `name`
    initials,       \* the returned string
    ipc,            \* "idle" | "call" | "returned"
    \* ---- ImageGenerator._format_date and _format_date_full, one call each
    \*      on the same created_at
    date_str,       \* the argument
    date_short,     \* what _format_date returned
    date_full,      \* what _format_date_full returned
    dpc,            \* "idle" | "call" | "short" | "returned"
    \* ---- the process-wide environment
    now,            \* the wall clock, in whole seconds
    files           \* the output directory: filepath -> [by, state]

parseVars  == <<line, remaining, parts, ppc>>
renderVars == <<rargs, rlines, ry, draws, rpc>>
genVars    == <<tweet, gpc, current_y, avatar, fetched, pastes, sections,
                gerror, gresult, call, results>>
botVars    == <<tweet_url, bpc, status, tweet_data, http_requests, generate_calls,
                photos, outcome, msg>>
fmtVars    == <<num, formatted, fpc>>
iniVars    == <<author_name, initials, ipc>>
dateVars   == <<date_str, date_short, date_full, dpc>>
envVars    == <<now, files>>

vars == <<line, remaining, parts, ppc, rargs, rlines, ry, draws, rpc,
          tweet, gpc, current_y, avatar, fetched, pastes, sections,
          gerror, gresult, call, results,
          tweet_url, bpc, status, tweet_data, http_requests, generate_calls,
          photos, outcome, msg, num, formatted, fpc, author_name, initials, ipc,
          date_str, date_short, date_full, dpc, now, files>>

\* The values the variables of a function hold while it is not running.
ParseIdle  == line = <<>> /\ remaining = <<>> /\ parts = <<>> /\ ppc = "idle"
RenderIdle == /\ rargs = [text |-> <<>>, x |-> 0, max_width |-> 0, font |-> "none"]
              /\ rlines = <<>>
              /\ ry = [px |-> 0, half |-> 0, float |-> FALSE]
              /\ draws = <<>>
              /\ rpc = "idle"
NoTweet    == [text |-> <<>>, images |-> <<>>, author_avatar |-> "None"]
NoPath     == [timestamp |-> -1, theme_name |-> "none"]
GenIdle    == /\ tweet = NoTweet
              /\ gpc = "idle"
              /\ current_y = [px |-> 0, half |-> 0, float |-> FALSE]
              /\ avatar = "none"
              /\ fetched = <<>>
              /\ pastes = <<>>
              /\ sections = <<>>
              /\ gerror = "none"
              /\ gresult = NoPath
              /\ call = 0
              /\ results = <<>>
BotIdle    == /\ tweet_url = <<>>
              /\ bpc = "idle"
              /\ status = "none"
              /\ tweet_data = [state |-> "pending", data |-> NoTweet]
              /\ http_requests = 0
              /\ generate_calls = 0
              /\ photos = <<>>
              /\ outcome = "returned"
              /\ msg = 0
FmtIdle    == num = 0 /\ formatted = <<>> /\ fpc = "idle"
IniIdle    == author_name = <<>> /\ initials = <<>> /\ ipc = "idle"
DateIdle   == date_str = <<>> /\ date_short = <<>> /\ date_full = <<>> /\ dpc = "idle"
EnvInit    == now = 0 /\ files = [p \in {} |-> [by |-> 0, state |-> "none"]]

(***************************************************************************)
(* Characters and character classes (Python str, re module semantics).     *)
(***************************************************************************)
WordChars  == {"a", "h", "t", "p", "s", "_"}      \* \w
SpaceChars == {" ", "\t"}                         \* \s within one line
IsWord(c)  == c \in WordChars
IsSpace(c) == c \in SpaceChars

\* The element of a one-element set.  { F(v) : v \in {e} } evaluates e once
\* and names its value v, where LET v == e would evaluate e at every use.
TheOne(S) == CHOOSE r \in S : TRUE

Concat(ss) ==
    LET RECURSIVE cat(_)
        cat(i) == IF i > Len(ss) THEN <<>> ELSE ss[i] \o cat(i + 1)
    IN cat(1)

\* s[i-1:] starts with the literal `lit` (i is 1-indexed).
StartsWithAt(s, i, lit) ==
    /\ i + Len(lit) - 1 <= Len(s)
    /\ \A k \in 1..Len(lit) : s[i + k - 1] = lit[k]

\* The last index of the maximal run of characters satisfying the class,
\* ("w" for \w, "S" for \S) starting at index i; i - 1 when s[i] is not in
\* the class (greedy `+`).
NonSpace(c) == ~IsSpace(c)

InClass(cls, c) == IF cls = "w" THEN IsWord(c) ELSE NonSpace(c)

RunEnd(s, i, cls) ==
    LET RECURSIVE go(_)
        go(j) == IF j <= Len(s) /\ InClass(cls, s[j]) THEN go(j + 1) ELSE j - 1
    IN go(i)

(***************************************************************************)
(* The three patterns of _parse_text_entities, as the regex engine matches *)
(* them at one position: the index of the last matched character, or 0     *)
(* when the pattern does not match at i.                                   *)
(*     r'https?://\S+'   r'@\w+'   r'#\w+'                                 *)
(***************************************************************************)
HTTP == <<"h", "t", "t", "p">>
CSS  == <<":", "/", "/">>

UrlMatchEnd(s, i) ==
    IF ~StartsWithAt(s, i, HTTP) THEN 0
    ELSE LET \* `s?` is greedy: the engine tries the "s" first and backtracks.
             withS == /\ StartsWithAt(s, i + 4, <<"s">>)
                      /\ StartsWithAt(s, i + 5, CSS)
                      /\ RunEnd(s, i + 8, "S") >= i + 8
             noS   == /\ StartsWithAt(s, i + 4, CSS)
                      /\ RunEnd(s, i + 7, "S") >= i + 7
         IN IF withS THEN RunEnd(s, i + 8, "S")
            ELSE IF noS THEN RunEnd(s, i + 7, "S")
            ELSE 0

SigilMatchEnd(s, i, sigil) ==
    IF i <= Len(s) /\ s[i] = sigil /\ RunEnd(s, i + 1, "w") >= i + 1
    THEN RunEnd(s, i + 1, "w")
    ELSE 0

MatchEnd(entity_type, s, i) ==
    CASE entity_type = "url"     -> UrlMatchEnd(s, i)
      [] entity_type = "mention" -> SigilMatchEnd(s, i, "@")
      [] entity_type = "hashtag" -> SigilMatchEnd(s, i, "#")

\* re.search(pattern, s): the leftmost match, as [start, end] (1-indexed,
\* inclusive), or start = 0 when there is none.
re_search(entity_type, s) ==
    LET RECURSIVE scan(_)
        scan(i) ==
            IF i > Len(s) THEN [start |-> 0, end |-> 0]
            ELSE IF MatchEnd(entity_type, s, i) # 0
                 THEN [start |-> i, end |-> MatchEnd(entity_type, s, i)]
                 ELSE scan(i + 1)
    IN scan(1)

\* The list `patterns`, in its order.
patterns == <<"url", "mention", "hashtag">>

\* A variant of the pattern loop that keeps the first pattern that matches
\* anywhere instead of the earliest-starting one.
EarliestMatch_FirstPattern(rem) ==
    LET RECURSIVE loop(_)
        loop(k) ==
            IF k > Len(patterns) THEN [start |-> 0, end |-> 0, type |-> "none"]
            ELSE TheOne({ IF m.start # 0
                          THEN [start |-> m.start, end |-> m.end, type |-> patterns[k]]
                          ELSE loop(k + 1) : m \in {re_search(patterns[k], rem)} })
    IN loop(1)

\* The for loop over `patterns`: earliest_pos starts at len(remaining)
\* (0-indexed), a match replaces the current one only when match.start() is
\* strictly smaller.  Returns [start, end, type]; start = 0 for no match.
EarliestMatch(rem) ==
    LET RECURSIVE loop(_, _)
        loop(k, best) ==
            IF k > Len(patterns) THEN best
            ELSE LET earliest_pos == IF best.start = 0 THEN Len(rem) + 1
                                     ELSE best.start
                 IN TheOne({ IF m.start # 0 /\ m.start < earliest_pos
                             THEN loop(k + 1, [start |-> m.start, end |-> m.end,
                                               type |-> patterns[k]])
                             ELSE loop(k + 1, b)
                             : m \in {re_search(patterns[k], rem)}, b \in {best} })
    IN loop(1, [start |-> 0, end |-> 0, type |-> "none"])

\* A variant of the iteration that forgets the untagged prefix before a match.
ParseIteration_DropPrefix(rem, ps) ==
    TheOne({
        IF m.start # 0
        THEN [remaining |-> SubSeq(rem, m.end + 1, Len(rem)),
              parts     |-> Append(ps, <<SubSeq(rem, m.start, m.end), m.type>>),
              done      |-> FALSE]
        ELSE [remaining |-> rem,
              parts     |-> IF rem # <<>> THEN Append(ps, <<rem, "text">>) ELSE ps,
              done      |-> TRUE]
        : m \in {EarliestMatch(rem)} })

\* One iteration of `while remaining:` on the locals (remaining, parts).
\* done is TRUE after the `break`.
ParseIteration(rem, ps) ==
    TheOne({
        IF m.start # 0
        THEN [remaining |-> SubSeq(rem, m.end + 1, Len(rem)),
              parts     |-> (IF m.start > 1
                             THEN Append(ps, <<SubSeq(rem, 1, m.start - 1), "text">>)
                             ELSE ps)
                            \o <<(<<SubSeq(rem, m.start, m.end), m.type>>)>>,
              done      |-> FALSE]
        ELSE [remaining |-> rem,
              parts     |-> IF rem # <<>> THEN Append(ps, <<rem, "text">>) ELSE ps,
              done      |-> TRUE]
        : m \in {EarliestMatch(rem)} })

\* The whole function: iterate until the loop condition fails or it breaks.
_parse_text_entities(text) ==
    LET RECURSIVE run(_, _)
        run(rem, ps) ==
            IF rem = <<>> THEN ps
            ELSE TheOne({ IF st.done THEN st.parts
                          ELSE run(st.remaining, st.parts)
                          : st \in {ParseIteration(rem, ps)} })
    IN run(text, <<>>)

(***************************************************************************)
(* Input lines: concatenations of at most MaxChunks chunks.                *)
(***************************************************************************)
MaxChunks == 4

LineChunks ==
    { <<"a">>, <<" ">>, <<"@">>, <<"#">>, <<"/">>, <<"h">>,
      <<"h", "t", "t", "p", ":", "/", "/">>,
      <<"h", "t", "t", "p", "s", ":", "/", "/">> }

ChunkSeqs(S, n) == UNION { [1..k -> S] : k \in 0..n }

ParseLines == { Concat(cs) : cs \in ChunkSeqs(LineChunks, MaxChunks) }

(***************************************************************************)
(* Specification of the segmentation loop.                                 *)
(***************************************************************************)
InitParse ==
    /\ RenderIdle
    /\ GenIdle
    /\ BotIdle
    /\ FmtIdle
    /\ IniIdle
    /\ DateIdle
    /\ EnvInit
    /\ line \in ParseLines
    /\ remaining = line
    /\ parts = <<>>
    /\ ppc = "loop"

\* `while remaining:` is false: fall through to `return parts`.
ParseExit ==
    /\ ppc = "loop"
    /\ remaining = <<>>
    /\ ppc' = "done"
    /\ UNCHANGED <<line, remaining, parts>>
    /\ UNCHANGED <<renderVars, genVars, botVars, fmtVars, iniVars, dateVars, envVars>>

\* One iteration that finds a match and goes round again.
ParseMatch ==
    /\ ppc = "loop"
    /\ remaining # <<>>
    /\ ~ParseIteration(remaining, parts).done
    /\ remaining' = ParseIteration(remaining, parts).remaining
    /\ parts' = ParseIteration(remaining, parts).parts
    /\ UNCHANGED <<line, ppc>>
    /\ UNCHANGED <<renderVars, genVars, botVars, fmtVars, iniVars, dateVars, envVars>>

\* The iteration that finds no match: emit the remainder and break.
ParseBreak ==
    /\ ppc = "loop"
    /\ remaining # <<>>
    /\ ParseIteration(remaining, parts).done
    /\ parts' = ParseIteration(remaining, parts).parts
    /\ ppc' = "done"
    /\ UNCHANGED <<line, remaining>>
    /\ UNCHANGED <<renderVars, genVars, botVars, fmtVars, iniVars, dateVars, envVars>>

NextParse == ParseExit \/ ParseMatch \/ ParseBreak

SpecParse == InitParse /\ [][NextParse]_vars

(***************************************************************************)
(* Segmentation claims.                                                    *)
(***************************************************************************)
Contents(ps) == Concat([k \in 1..Len(ps) |-> ps[k][1]])
Kinds(ps)    == { ps[k][2] : k \in 1..Len(ps) }
TaggedKinds  == {"url", "mention", "hashtag"}

\* C1: the spans emitted by _parse_text_entities are non-empty and their
\* contents, concatenated in emitted order, give back the input line exactly
\* (during the loop: emitted contents followed by the unconsumed suffix).
C1_Exhaustive ==
    /\ \A k \in 1..Len(parts) : parts[k][1] # <<>>
    /\ ppc = "loop" => Contents(parts) \o remaining = line
    /\ ppc = "done" => Contents(parts) = line

\* A finished segmentation with a plain span, a tagged span and at least
\* three spans in all.
C1_Witness ==
    /\ ppc = "done"
    /\ Len(parts) >= 3
    /\ "text" \in Kinds(parts)
    /\ Kinds(parts) \cap TaggedKinds # {}

\* What it means for a whole string to match a pattern, stated on the
\* string and not on the scan.
AllNonSpace(w, from) == \A k \in from..Len(w) : w[k] \notin SpaceChars
AllWord(w, from)     == \A k \in from..Len(w) : w[k] \in WordChars

FullMatch(kind, w) ==
    CASE kind = "url" ->
            \/ /\ Len(w) >= 8
               /\ SubSeq(w, 1, 7) = <<"h", "t", "t", "p", ":", "/", "/">>
               /\ AllNonSpace(w, 8)
            \/ /\ Len(w) >= 9
               /\ SubSeq(w, 1, 8) = <<"h", "t", "t", "p", "s", ":", "/", "/">>
               /\ AllNonSpace(w, 9)
      [] kind = "mention" -> Len(w) >= 2 /\ w[1] = "@" /\ AllWord(w, 2)
      [] kind = "hashtag" -> Len(w) >= 2 /\ w[1] = "#" /\ AllWord(w, 2)
      [] OTHER -> FALSE

HasMatchAt(kind, s, i) == \E j \in i..Len(s) : FullMatch(kind, SubSeq(s, i, j))

ContainsMatch(s) ==
    \E kind \in TaggedKinds : \E i \in 1..Len(s) : HasMatchAt(kind, s, i)

Priority(kind) == CHOOSE k \in 1..3 : <<"url", "mention", "hashtag">>[k] = kind

C2_Spans ==
    \A k \in 1..Len(parts) :
        IF parts[k][2] = "text" THEN ~ContainsMatch(parts[k][1])
        ELSE /\ parts[k][2] \in TaggedKinds
             /\ FullMatch(parts[k][2], parts[k][1])

\* An iteration that consumed input: the last span of parts' is the
\* earliest-starting, longest match in the old suffix; what lay before it was
\* emitted as one plain span; the suffix got strictly shorter.
C2_Iteration ==
    remaining' # remaining =>
        LET used  == Len(remaining) - Len(remaining')
            span  == parts'[Len(parts')]
            start == used - Len(span[1]) + 1
        IN /\ Len(remaining') < Len(remaining)
           /\ remaining' = SubSeq(remaining, used + 1, Len(remaining))
           /\ span[2] \in TaggedKinds
           /\ start >= 1
           /\ span[1] = SubSeq(remaining, start, used)
           /\ FullMatch(span[2], span[1])
           /\ \A j \in (used + 1)..Len(remaining) :
                  ~FullMatch(span[2], SubSeq(remaining, start, j))
           /\ \A kind \in TaggedKinds :
                  /\ \A q \in 1..(start - 1) : ~HasMatchAt(kind, remaining, q)
                  /\ Priority(kind) < Priority(span[2])
                        => ~HasMatchAt(kind, remaining, start)
           /\ parts' = (IF start > 1
                        THEN Append(parts, <<SubSeq(remaining, 1, start - 1), "text">>)
                        ELSE parts) \o <<span>>

\* The loop stops only when the suffix is empty or holds no match.
C2_Stop ==
    (ppc = "loop" /\ ppc' = "done") => ~ContainsMatch(remaining)

\* Every step of the loop either shortens the suffix or ends the loop.
C2_Progress ==
    /\ ppc = "loop"
    /\ Len(remaining') < Len(remaining) \/ ppc' = "done"

\* C2: each iteration of _parse_text_entities emits the earliest-starting
\* match of the three patterns in the unconsumed suffix (URL before mention
\* before hashtag at equal starts); tagged spans fully match their own
\* pattern, plain spans contain no match, and every iteration that does not
\* end the loop shortens the suffix, so the loop terminates.
C2_EarliestMatch ==
    /\ []C2_Spans
    /\ [][C2_Iteration /\ C2_Stop /\ C2_Progress]_vars

\* A finished segmentation in which a plain prefix was emitted before a URL
\* and something follows the URL's line position.
C2_Witness ==
    /\ ppc = "done"
    /\ \E k \in 1..(Len(parts) - 1) :
          parts[k][2] = "text" /\ parts[k + 1][2] \in TaggedKinds
    /\ Cardinality(Kinds(parts) \cap TaggedKinds) >= 1
    /\ Len(parts) >= 3

(***************************************************************************)
(* ImageGenerator._render_text                                             *)
(*                                                                         *)
(* The vertical cursor is a Python number: an int until the blank-line     *)
(* branch adds line_height * 0.5, a float from then on.  It is kept as     *)
(* [px, half, float]: the value px + half/2 and whether it is a float.     *)
(***************************************************************************)
line_height == 105

YInt(n) == [px |-> n, half |-> 0, float |-> FALSE]

\* y + n for an int n: the type of y is kept.
YAdd(y, n) == [y EXCEPT !.px = @ + n]

\* y + n * 0.5 for an int n: the result is a float.
YAddHalfOf(y, n) ==
    LET t == 2 * y.px + y.half + n
    IN [px |-> t \div 2, half |-> t % 2, float |-> TRUE]

\* y as a number of half pixels, for comparisons.
YHalves(y) == 2 * y.px + y.half

\* str.replace(old, new) for the two replacements of line 293, in order:
\* '\r\n' -> '\n', then '\r' -> '\n'.
NormalizeBreaks(text) ==
    LET RECURSIVE crlf(_)
        crlf(i) ==
            IF i > Len(text) THEN <<>>
            ELSE IF text[i] = "\r" /\ i < Len(text) /\ text[i + 1] = "\n"
                 THEN <<"\n">> \o crlf(i + 2)
                 ELSE <<text[i]>> \o crlf(i + 1)
        t1 == crlf(1)
    IN [k \in 1..Len(t1) |-> IF t1[k] = "\r" THEN "\n" ELSE t1[k]]

\* str.split(sep) for a one-character separator: empty fields are kept and
\* the empty string gives one empty field.
Split(s, sep) ==
    LET RECURSIVE go(_, _)
        go(i, cur) ==
            IF i > Len(s) THEN <<cur>>
            ELSE IF s[i] = sep THEN <<cur>> \o go(i + 1, <<>>)
                 ELSE go(i + 1, Append(cur, s[i]))
    IN go(1, <<>>)

\* `not line.strip()`
IsBlank(ln) == \A k \in 1..Len(ln) : IsSpace(ln[k])

\* The advance width of one character in a font.  "unit" and "wide" are
\* small test fonts; "dejavu78" stands for DejaVuSans at size 78.
CharWidth(font, c) ==
    CASE font = "unit"     -> 1
      [] font = "wide"     -> IF IsWord(c) THEN 2 ELSE 1
      [] font = "dejavu78" -> IF c = " " THEN 25 ELSE 48

\* bbox = draw.textbbox((0, 0), s, font=font); bbox[2] - bbox[0]
\* The measured width of a run, taken as the sum of its advance widths.
measure(font, s) ==
    LET RECURSIVE sum(_)
        sum(i) == IF i > Len(s) THEN 0 ELSE CharWidth(font, s[i]) + sum(i + 1)
    IN sum(1)

\* The colour chosen at line 314.
Color(part_type) ==
    IF part_type \in {"mention", "hashtag", "url"} THEN "link" ELSE "text"

\* One draw.text((x, y), text, fill=color, font=font) call.
DrawText(x, y, text, color) == [x |-> x, y |-> y, text |-> text, color |-> color]

\* `for p_text, p_x, p_color in current_line_parts: draw.text((p_x, y), ...)`
Flush(st) ==
    st.draws \o [k \in 1..Len(st.current_line_parts) |->
                    DrawText(st.current_line_parts[k].x, st.y,
                             st.current_line_parts[k].text,
                             st.current_line_parts[k].color)]

\* A variant of the word loop that compares only the word's own width with
\* max_width, not the width the line would get.
RenderWords_NoLineWidth(a, st0, words, color) ==
    LET RECURSIVE go(_, _)
        go(k, st) ==
            IF k > Len(words) THEN st
            ELSE LET w_width == measure(a.font, words[k])
                     wrap == w_width > a.max_width
                     y1   == IF wrap THEN YAdd(st.y, line_height) ELSE st.y
                     x1   == IF wrap THEN a.x ELSE st.current_x
                     lw1  == IF wrap THEN 0 ELSE st.line_width
                 IN TheOne({ go(k + 1, nxt) : nxt \in {
                       [st EXCEPT !.y = y1,
                                  !.draws = Append(@, DrawText(x1, y1, words[k], color)),
                                  !.current_x = x1 + w_width,
                                  !.line_width = lw1 + w_width]} })
    IN TheOne({ go(1, st) : st \in {st0} })

\* `for word in words:` of the long-part branch (lines 335-344), from the
\* k-th word on.  st holds y, current_x, line_width and draws.
RenderWords(a, st0, words, color) ==
    LET RECURSIVE go(_, _)
        go(k, st) ==
            IF k > Len(words) THEN st
            ELSE LET w_width == measure(a.font, words[k])
                     wrap == st.line_width + w_width > a.max_width
                     y1   == IF wrap THEN YAdd(st.y, line_height) ELSE st.y
                     x1   == IF wrap THEN a.x ELSE st.current_x
                     lw1  == IF wrap THEN 0 ELSE st.line_width
                 IN TheOne({ go(k + 1, nxt) : nxt \in {
                       [st EXCEPT !.y = y1,
                                  !.draws = Append(@, DrawText(x1, y1, words[k], color)),
                                  !.current_x = x1 + w_width,
                                  !.line_width = lw1 + w_width]} })
    IN TheOne({ go(1, st) : st \in {st0} })

\* The body of `for part_text, part_type in parts:` (lines 314-348).
RenderPart(a, st, part) ==
    LET part_text  == part[1]
        color      == Color(part[2])
        part_width == measure(a.font, part_text)
    IN IF st.line_width + part_width <= a.max_width
       THEN [st EXCEPT
                !.current_line_parts =
                    Append(@, [text |-> part_text, x |-> st.current_x, color |-> color]),
                !.line_width = @ + part_width,
                !.current_x = @ + part_width]
       ELSE LET flushed == [st EXCEPT !.draws = Flush(st),
                                      !.y = YAdd(st.y, line_height),
                                      !.current_x = a.x,
                                      !.line_width = 0,
                                      !.current_line_parts = <<>>]
            IN IF part_width > a.max_width
               THEN RenderWords(a, flushed, Split(part_text, " "), color)
               ELSE [flushed EXCEPT
                        !.current_line_parts =
                            <<[text |-> part_text, x |-> flushed.current_x,
                               color |-> color]>>,
                        !.line_width = part_width,
                        !.current_x = part_width]

\* One iteration of `for line in lines:` (lines 299-353) on (y, draws).
RenderLine(a, y, ds, ln) ==
    IF IsBlank(ln)
    THEN [y |-> YAddHalfOf(y, line_height), draws |-> ds]
    ELSE LET ps == _parse_text_entities(ln)
             RECURSIVE go(_, _)
             go(k, st) ==
                 IF k > Len(ps) THEN st
                 ELSE TheOne({ go(k + 1, nxt) : nxt \in {RenderPart(a, st, ps[k])} })
         IN TheOne({ [y |-> YAdd(end.y, line_height), draws |-> Flush(end)]
                     : end \in {go(1, [y |-> y, draws |-> ds, current_x |-> a.x,
                                       current_line_parts |-> <<>>,
                                       line_width |-> 0])} })

\* lines = text.split('\n') after the normalisation of line 293.
RenderLines(text) == Split(NormalizeBreaks(text), "\n")

\* The whole function: the returned y and the draw.text calls made.
_render_text(text, x, y, max_width, font) ==
    LET a  == [text |-> text, x |-> x, max_width |-> max_width, font |-> font]
        ls == RenderLines(text)
        RECURSIVE go(_, _)
        go(k, st) ==
            IF k > Len(ls) THEN st
            ELSE TheOne({ go(k + 1, nxt)
                          : nxt \in {RenderLine(a, st.y, st.draws, ls[k])} })
    IN go(1, [y |-> y, draws |-> <<>>])

(***************************************************************************)
(* Inputs of _render_text: texts of at most MaxTextChunks chunks, a left   *)
(* margin, and content widths of a few character widths.                   *)
(***************************************************************************)
MaxTextChunks == 4
MinWidth == 2
MaxWidth == 4

TextChunks ==
    { <<"a">>, <<" ">>, <<"@", "a">>, <<"\n">>, <<"\r">>,
      <<"h", "t", "t", "p", ":", "/", "/", "a">> }

RenderTexts == { Concat(cs) : cs \in ChunkSeqs(TextChunks, MaxTextChunks) }

RenderX == 1

InitRender ==
    /\ ParseIdle
    /\ GenIdle
    /\ BotIdle
    /\ FmtIdle
    /\ IniIdle
    /\ DateIdle
    /\ EnvInit
    /\ \E t \in RenderTexts, w \in MinWidth..MaxWidth, f \in {"unit", "wide"} :
          rargs = [text |-> t, x |-> RenderX, max_width |-> w, font |-> f]
    /\ rlines = RenderLines(rargs.text)
    /\ ry = YInt(0)
    /\ draws = <<>>
    /\ rpc = "lines"

\* An iteration on a blank line: `y += line_height * 0.5; continue`.
RenderBlankLine ==
    /\ rpc = "lines"
    /\ rlines # <<>>
    /\ IsBlank(Head(rlines))
    /\ ry' = RenderLine(rargs, ry, draws, Head(rlines)).y
    /\ draws' = RenderLine(rargs, ry, draws, Head(rlines)).draws
    /\ rlines' = Tail(rlines)
    /\ UNCHANGED <<rargs, rpc>>
    /\ UNCHANGED <<parseVars, genVars, botVars, fmtVars, iniVars, dateVars, envVars>>

\* An iteration on a line with text: segment, wrap, draw, advance.
RenderTextLine ==
    /\ rpc = "lines"
    /\ rlines # <<>>
    /\ ~IsBlank(Head(rlines))
    /\ ry' = RenderLine(rargs, ry, draws, Head(rlines)).y
    /\ draws' = RenderLine(rargs, ry, draws, Head(rlines)).draws
    /\ rlines' = Tail(rlines)
    /\ UNCHANGED <<rargs, rpc>>
    /\ UNCHANGED <<parseVars, genVars, botVars, fmtVars, iniVars, dateVars, envVars>>

\* `return y`
RenderReturn ==
    /\ rpc = "lines"
    /\ rlines = <<>>
    /\ rpc' = "returned"
    /\ UNCHANGED <<rargs, rlines, ry, draws>>
    /\ UNCHANGED <<parseVars, genVars, botVars, fmtVars, iniVars, dateVars, envVars>>

NextRender == RenderBlankLine \/ RenderTextLine \/ RenderReturn

SpecRender == InitRender /\ [][NextRender]_vars

(***************************************************************************)
(* Word-wrap claims.                                                       *)
(***************************************************************************)
\* The draw.text calls made at one y: a visual line.
RunsAt(ds, y) == { k \in 1..Len(ds) : ds[k].y = y }

SumWidths(font, ds, ks) ==
    LET RECURSIVE sum(_)
        sum(k) == IF k > Len(ds) THEN 0
                  ELSE (IF k \in ks THEN measure(font, ds[k].text) ELSE 0) + sum(k + 1)
    IN sum(1)

WhitespaceFree(w) == \A k \in 1..Len(w) : w[k] \notin SpaceChars \cup {"\n", "\r"}

Overflows(ks) == SumWidths(rargs.font, draws, ks) > rargs.max_width

\* C3: every visual line drawn by _render_text has total measured width
\* <= max_width, unless it is one single run, a whitespace-free word that is
\* wider than max_width by itself.
C3_WrapWidth ==
    \A j \in 1..Len(draws) :
        LET ks == RunsAt(draws, draws[j].y)
        IN Overflows(ks) =>
              /\ ks = {j}
              /\ WhitespaceFree(draws[j].text)
              /\ measure(rargs.font, draws[j].text) > rargs.max_width

\* A finished rendering that wrapped, holds a line of several runs that
\* fits, and holds a line with the permitted single-word overflow.
C3_Witness ==
    /\ rpc = "returned"
    /\ \E j \in 1..Len(draws) : Overflows(RunsAt(draws, draws[j].y))
    /\ \E j \in 1..Len(draws) :
          /\ Cardinality(RunsAt(draws, draws[j].y)) >= 2
          /\ SumWidths(rargs.font, draws, RunsAt(draws, draws[j].y)) = rargs.max_width

(***************************************************************************)
(* ImageGenerator.generate                                                 *)
(***************************************************************************)
width         == 2000
height        == 2400
padding_side  == 110
padding_top   == 110
content_width == width - (2 * padding_side)
avatar_size   == 110
theme_name    == "dark"

\* A decoded image (only its size matters here) and the absence of one.
NoImage   == [ok |-> FALSE, width |-> 0, height |-> 0]
Img(w, h) == [ok |-> TRUE, width |-> w, height |-> h]

\* Source images: a wide one and a tall one.  height / width is 0.25 and
\* 2.0, both exact as floats.
ImageSizes == { Img(1600, 400), Img(800, 1600) }

\* What a fetch can meet: a timeout or connection error, a non-200 status,
\* a 200 with bytes that do not decode, a 200 with an image.
Responses ==
    { [kind |-> "timeout",  body |-> NoImage],
      [kind |-> "http_404", body |-> NoImage],
      [kind |-> "http_200", body |-> NoImage] }
    \cup { [kind |-> "http_200", body |-> i] : i \in ImageSizes }

\* _load_image(url, size): None for a missing url; the exception of a
\* timeout or of Image.open is caught and gives None; a status other than
\* 200 falls through to `return None`.
_load_image(url, resp) ==
    IF url = "None" THEN NoImage
    ELSE IF resp.kind = "http_200" /\ resp.body.ok THEN resp.body
    ELSE NoImage

\* int(w * (image.height / image.width))
ScaledHeight(w, image) == (w * image.height) \div image.width

Min(a, b) == IF a <= b THEN a ELSE b

\* num_images = min(len(tweet_data.images), 4)
num_images(td) == Min(Len(td.images), 4)

\* The three layouts of the media section: the width images are resized
\* to, the cap on their height, the column and row pitch, the number of
\* urls fetched, and what is added to current_y after the loop ("own" for
\* the 1-image layout, which adds img_height + 35 only when the image
\* loaded).
Layout(n) ==
    CASE n = 1 -> [img_w |-> content_width, max_h |-> 1500, fetches |-> 1,
                   col_pitch |-> 0, row_pitch |-> 0, advance |-> 0]
      [] n = 2 -> [img_w |-> (content_width - 16) \div 2, max_h |-> 850, fetches |-> 2,
                   col_pitch |-> ((content_width - 16) \div 2) + 16, row_pitch |-> 0,
                   advance |-> 850 + 35]
      [] OTHER -> [img_w |-> (content_width - 16) \div 2, max_h |-> 700, fetches |-> n,
                   col_pitch |-> ((content_width - 16) \div 2) + 16,
                   row_pitch |-> 700 + 16,
                   advance |-> (700 * 2) + 50]

\* The img.paste call for image i (0-based) of an n-image layout at cursor y.
\* In the 2-image layout the box is (padding_side + i * (img_w + 16), y); in
\* the 3-4 layout row = i // 2 and col = i % 2.
PasteOf(n, i, y, image) ==
    LET l   == Layout(n)
        col == IF n = 1 THEN 0 ELSE IF n = 2 THEN i ELSE i % 2
        row == IF n <= 2 THEN 0 ELSE i \div 2
    IN [i |-> i,
        x |-> padding_side + col * l.col_pitch,
        y |-> YAdd(y, row * l.row_pitch),
        w |-> l.img_w,
        h |-> Min(l.max_h, ScaledHeight(l.img_w, image))]

\* Image.paste takes integer box coordinates: a float raises TypeError.
PasteRaises(paste) == paste.y.float

Section(name, at, y) == [name |-> name, at |-> at, y |-> y]

FilePath(timestamp) == [timestamp |-> timestamp, theme_name |-> theme_name]

WriteFile(fs, path, by, state) ==
    [p \in DOMAIN fs \cup {path} |->
        IF p = path THEN [by |-> by, state |-> state] ELSE fs[p]]

(***************************************************************************)
(* Inputs of generate.                                                     *)
(***************************************************************************)
MaxGenLines == 4
MaxImages   == 5

JoinLines(ls) ==
    LET RECURSIVE join(_)
        join(i) == IF i > Len(ls) THEN <<>>
                   ELSE (IF i > 1 THEN <<"\n">> ELSE <<>>) \o ls[i] \o join(i + 1)
    IN join(1)

GenTexts ==
    { JoinLines(ls) : ls \in UNION { [1..k -> {<<>>, <<"a">>}] : k \in 1..MaxGenLines } }

ImageUrls(n) == [k \in 1..n |-> "photo_url"]

GenTweets ==
    { [text |-> t, images |-> ImageUrls(n), author_avatar |-> a]
      : t \in GenTexts, n \in 0..MaxImages, a \in {"None", "avatar_url"} }

(***************************************************************************)
(* The steps of generate.                                                  *)
(***************************************************************************)
\* Lines 112-148: canvas, fonts, layout constants.
GenBegin ==
    /\ gpc = "start"
    /\ current_y' = YInt(padding_top)
    /\ gpc' = "avatar"
    /\ UNCHANGED <<tweet, avatar, fetched, pastes, sections, gerror, gresult, call, results>>
    /\ UNCHANGED <<parseVars, renderVars, botVars, fmtVars, iniVars, dateVars, envVars>>

\* Lines 150-198: the avatar fetch resolves, then header, tweet text and
\* the entry of the images section, up to the next await.
GenHeaderText ==
    /\ gpc = "avatar"
    /\ \E resp \in Responses :
          avatar' = IF _load_image(tweet.author_avatar, resp).ok
                    THEN "image" ELSE "initials"
    /\ LET y1 == YAdd(current_y, avatar_size + 65)
           y2 == _render_text(tweet.text, padding_side, y1, content_width,
                              "dejavu78").y
       IN /\ sections' = <<Section("header", current_y, y1), Section("text", y1, y2)>>
          /\ current_y' = IF tweet.images # <<>> THEN YAdd(y2, 30) ELSE y2
    /\ gpc' = IF tweet.images # <<>> THEN "image" ELSE "footer"
    /\ UNCHANGED <<tweet, fetched, pastes, gerror, gresult, call, results>>
    /\ UNCHANGED <<parseVars, renderVars, botVars, fmtVars, iniVars, dateVars, envVars>>

\* Lines 200-236: one image fetch resolves; the image is pasted if it
\* loaded; after the last fetch the cursor advances.
GenImage ==
    /\ gpc = "image"
    /\ \E resp \in Responses :
          LET n     == num_images(tweet)
              l     == Layout(n)
              i     == Len(fetched)
              image == _load_image(tweet.images[i + 1], resp)
              paste == PasteOf(n, i, current_y, image)
              last  == i + 1 = l.fetches
              after == IF n = 1
                       THEN (IF image.ok THEN YAdd(current_y, paste.h + 35)
                             ELSE current_y)
                       ELSE YAdd(current_y, l.advance)
          IN /\ fetched' = Append(fetched, image)
             /\ IF image.ok /\ PasteRaises(paste)
                THEN /\ gpc' = "raised"
                     /\ gerror' = "TypeError"
                     /\ UNCHANGED <<pastes, current_y, sections>>
                ELSE /\ pastes' = IF image.ok THEN Append(pastes, paste) ELSE pastes
                     /\ current_y' = IF last THEN after ELSE current_y
                     /\ sections' = IF last
                                    THEN Append(sections, Section("media", current_y, after))
                                    ELSE sections
                     /\ gpc' = IF last THEN "footer" ELSE "image"
                     /\ UNCHANGED gerror
    /\ UNCHANGED <<tweet, avatar, gresult, call, results>>
    /\ UNCHANGED <<parseVars, renderVars, botVars, fmtVars, iniVars, dateVars, envVars>>

\* Lines 238-277: divider, metrics bar, bottom branding.
GenFooter ==
    /\ gpc = "footer"
    /\ LET y1 == YAdd(current_y, 45)
           y2 == YAdd(y1, 55)
           y3 == YAdd(y2, 75)
       IN /\ sections' = sections \o <<Section("divider", y1, y2),
                                       Section("metrics", y2, y3),
                                       Section("branding", y3, y3)>>
          /\ current_y' = y3
    /\ gpc' = "save"
    /\ UNCHANGED <<tweet, avatar, fetched, pastes, gerror, gresult, call, results>>
    /\ UNCHANGED <<parseVars, renderVars, botVars, fmtVars, iniVars, dateVars, envVars>>

\* Lines 279-287: img.save writes the canvas, as allocated, to the path
\* named after the current second and the theme, and the path is returned.
GenSaveReturn ==
    /\ gpc = "save"
    /\ files' = WriteFile(files, FilePath(now), call, "complete")
    /\ gresult' = FilePath(now)
    /\ results' = Append(results, [call |-> call, path |-> FilePath(now)])
    /\ gpc' = "returned"
    /\ UNCHANGED <<tweet, current_y, avatar, fetched, pastes, sections, gerror, call, now>>
    /\ UNCHANGED <<parseVars, renderVars, botVars, fmtVars, iniVars, dateVars>>

\* Line 284 fails part-way (an OSError of the file system): img.save has
\* opened the final path for writing and the exception propagates.  The
\* file is left as far as it was written; Pillow releases that remove a
\* file the failed save had created may remove it, a file that was there
\* before stays, truncated.
GenSaveFails ==
    /\ gpc = "save"
    /\ \E removed \in BOOLEAN :
          files' = IF removed /\ FilePath(now) \notin DOMAIN files
                   THEN files
                   ELSE WriteFile(files, FilePath(now), call, "partial")
    /\ gerror' = "OSError"
    /\ gpc' = "raised"
    /\ UNCHANGED <<tweet, current_y, avatar, fetched, pastes, sections, gresult,
                   call, results, now>>
    /\ UNCHANGED <<parseVars, renderVars, botVars, fmtVars, iniVars, dateVars>>

NextGen ==
    \/ GenBegin
    \/ GenHeaderText
    \/ GenImage
    \/ GenFooter
    \/ GenSaveReturn
    \/ GenSaveFails

InitGen ==
    /\ ParseIdle
    /\ RenderIdle
    /\ BotIdle
    /\ FmtIdle
    /\ IniIdle
    /\ DateIdle
    /\ EnvInit
    /\ tweet \in GenTweets
    /\ gpc = "start"
    /\ current_y = YInt(0)
    /\ avatar = "none"
    /\ fetched = <<>>
    /\ pastes = <<>>
    /\ sections = <<>>
    /\ gerror = "none"
    /\ gresult = NoPath
    /\ call = 1
    /\ results = <<>>

SpecGen == InitGen /\ [][NextGen]_vars

(***************************************************************************)
(* Claims about generate.                                                  *)
(***************************************************************************)
SectionNames == [k \in 1..Len(sections) |-> sections[k].name]
HasSection(name) == \E k \in 1..Len(sections) : sections[k].name = name
SectionOf(name)  == sections[CHOOSE k \in 1..Len(sections) : sections[k].name = name]

\* The indices (0-based) of the fetches that gave an image, in order.
LoadedIndices ==
    LET RECURSIVE pick(_)
        pick(k) == IF k > Len(fetched) THEN <<>>
                   ELSE (IF fetched[k].ok THEN <<k - 1>> ELSE <<>>) \o pick(k + 1)
    IN pick(1)

\* The cursor at which the media section starts: 30 below the text.
MediaStart == YAdd(SectionOf("text").y, 30)

MediaAdvance == YHalves(SectionOf("media").y) - YHalves(SectionOf("media").at)

\* C4: with 2, 3 or 4 images and any subset of the fetches failing, generate
\* does not abort; at most the first 4 urls are fetched; each image that
\* loaded is pasted at its own cell (row i div 2, column i mod 2), failed
\* cells get no paste; the cursor advances by the nominal grid height
\* (850 + 35 for one row, 2 * 700 + 50 for two); and in the 1-image layout
\* a failed fetch leaves the cursor advance that a loaded image gives.
C4_GridFailureIsolated ==
    /\ gerror # "TypeError"
    /\ Len(fetched) <= 4
    /\ (num_images(tweet) >= 2 /\ HasSection("text")) =>
          /\ Len(pastes) = Len(LoadedIndices)
          /\ \A k \in 1..Len(pastes) :
                LET i == LoadedIndices[k]
                    img_w == (content_width - 16) \div 2
                    max_h == IF num_images(tweet) = 2 THEN 850 ELSE 700
                IN /\ pastes[k].i = i
                   /\ pastes[k].x = padding_side + (i % 2) * (img_w + 16)
                   /\ pastes[k].y = YAdd(MediaStart, (i \div 2) * (max_h + 16))
          /\ HasSection("media") =>
                MediaAdvance = 2 * (IF num_images(tweet) = 2 THEN 850 + 35
                                    ELSE (700 * 2) + 50)
    /\ (num_images(tweet) = 1 /\ HasSection("media") /\ ~fetched[1].ok) =>
          \E image \in ImageSizes :
              MediaAdvance = 2 * (Min(1500, (content_width * image.height) \div image.width) + 35)

\* C5: in the 2-image and 3-4-image layouts every pasted image fills a cell
\* of one fixed width and height, whatever the aspect ratio of the source.
C5_UniformCells ==
    num_images(tweet) >= 2 =>
        \A k \in 1..Len(pastes) :
            /\ pastes[k].w = (content_width - 16) \div 2
            /\ pastes[k].h = (IF num_images(tweet) = 2 THEN 850 ELSE 700)

\* The height of the image img.save writes: the canvas as allocated at line
\* 118; generate never crops or resizes it.
OutputHeight == height

\* C6: the written image is no higher than the allocated canvas and reaches
\* at least to the final vertical cursor, so that no section is drawn below
\* its bottom edge (a bottom padding of 0 is the weakest reading).
C6_HeightCoversContent ==
    gpc = "returned" =>
        /\ OutputHeight <= height
        /\ 2 * OutputHeight >= YHalves(current_y)
        /\ \A k \in 1..Len(sections) : YHalves(sections[k].at) <= 2 * OutputHeight

\* C9: whatever the avatar and image fetches give, _load_image gives None
\* or an image and never raises; a failed avatar is replaced by the initials
\* circle; generate is ended by no exception of its own (only a failing file
\* write can end it) and a call that returns has drawn text, media (if any),
\* metrics and branding in this order and saved the file it names.
C9_AssetFailureNotFatal ==
    /\ gerror \in {"none", "OSError"}
    /\ \A k \in 1..Len(fetched) : fetched[k] \in ImageSizes \cup {NoImage}
    /\ HasSection("header") =>
          /\ avatar \in {"image", "initials"}
          /\ tweet.author_avatar = "None" => avatar = "initials"
    /\ gpc = "returned" =>
          /\ SectionNames = <<"header", "text">>
                            \o (IF tweet.images # <<>> THEN <<"media">> ELSE <<>>)
                            \o <<"divider", "metrics", "branding">>
          /\ gresult \in DOMAIN files
          /\ files[gresult].state = "complete"

(***************************************************************************)
(* TweetExtractor                                                          *)
(***************************************************************************)
\* URLs are sequences of the tokens below: scheme and host, a handle
\* character, the path segment "/status/", a digit.
Host       == "https://x.com/"
StatusPath == "/status/"
Digits     == {"1"}
Handle     == {"u", "1"}                \* [a-zA-Z0-9_]

\* The end (exclusive) of the longest run of tokens of `set` in s from i.
RECURSIVE TokenRunEnd(_, _, _)
TokenRunEnd(s, i, set) ==
    IF i <= Len(s) /\ s[i] \in set THEN TokenRunEnd(s, i + 1, set) ELSE i

\* A search for '/status/' alone.
_extract_tweet_id_AnyStatus(u) ==
    LET starts == { i \in 1..Len(u) : u[i] = StatusPath }
    IN IF starts = {} THEN <<>> ELSE <<"1">>

\* re.search(r'/status/(\d+)', url): group 1 of the leftmost match, or <<>>
\* for None.
_extract_tweet_id(u) ==
    LET starts == { i \in 1..Len(u) :
                      u[i] = StatusPath /\ TokenRunEnd(u, i + 1, Digits) > i + 1 }
    IN IF starts = {} THEN <<>>
       ELSE LET i == CHOOSE m \in starts : \A k \in starts : m <= k
            IN SubSeq(u, i + 1, TokenRunEnd(u, i + 1, Digits) - 1)

\* str.split() without arguments: the maximal runs of non-whitespace.
RECURSIVE SplitWs(_)
SplitWs(s) ==
    IF s = <<>> THEN <<>>
    ELSE IF s[1] \in {" ", "\t"} THEN SplitWs(Tail(s))
    ELSE LET e == CHOOSE k \in 1..Len(s) :
                     /\ \A j \in 1..k : s[j] \notin {" ", "\t"}
                     /\ (k = Len(s) \/ s[k + 1] \in {" ", "\t"})
         IN <<SubSeq(s, 1, e)>> \o SplitWs(SubSeq(s, e + 1, Len(s)))

RECURSIVE Join(_, _)
Join(ws, sep) ==
    IF ws = <<>> THEN <<>>
    ELSE IF Len(ws) = 1 THEN ws[1]
    ELSE ws[1] \o sep \o Join(Tail(ws), sep)

\* _clean_text: line breaks normalised to \n, every line's whitespace runs
\* collapsed to one space and stripped.
_clean_text(text) ==
    LET lines == Split(NormalizeBreaks(text), "\n")
    IN Join([k \in 1..Len(lines) |-> Join(SplitWs(lines[k]), <<" ">>)], <<"\n">>)

\* The 'tweet' objects the API can send: text, photo entries (their url, or
\* "None" for an entry without one), avatar_url.
ApiTweets ==
    { [text |-> <<"a">>, photos |-> <<>>, avatar_url |-> "avatar_url"],
      [text |-> <<" ">>, photos |-> <<"photo_url">>, avatar_url |-> "None"],
      [text |-> <<"a", " ", " ", "a", "\r", "\n", "a">>,
       photos |-> <<"photo_url", "None", "photo_url">>, avatar_url |-> "avatar_url"] }

NoApiTweet == [text |-> <<>>, photos |-> <<>>, avatar_url |-> "missing"]

\* What the GET of extract can meet.
ApiResponses ==
    { [kind |-> "exception", code |-> 0,   message |-> "",          tweet |-> NoApiTweet],
      [kind |-> "http_500",  code |-> 0,   message |-> "",          tweet |-> NoApiTweet],
      [kind |-> "http_200",  code |-> 404, message |-> "NOT_FOUND", tweet |-> NoApiTweet],
      [kind |-> "http_200",  code |-> 200, message |-> "OK",        tweet |-> NoApiTweet] }
    \cup { [kind |-> "http_200", code |-> 200, message |-> "OK", tweet |-> t]
           : t \in ApiTweets }

NoData == [state |-> "None", data |-> NoTweet]

_parse_fxtweet_response(resp) ==
    IF resp.code # 200 \/ resp.message # "OK" THEN NoData
    ELSE IF resp.tweet = NoApiTweet THEN NoData
    ELSE [state |-> "data",
          data  |-> [text |-> _clean_text(resp.tweet.text),
                     images |-> SelectSeq(resp.tweet.photos, LAMBDA q : q # "None"),
                     author_avatar |-> resp.tweet.avatar_url]]

\* Lines 91-106 of extract, once the request was issued.
ExtractFromResponse(resp) ==
    IF resp.kind = "exception" THEN NoData
    ELSE IF resp.kind # "http_200" THEN NoData
    ELSE _parse_fxtweet_response(resp)

(***************************************************************************)
(* WallOfXBot                                                              *)
(***************************************************************************)
MaxMessages == 2
MaxClock    == 1

Urls ==
    { <<Host, "u", StatusPath, "1">>,
      <<Host, "u", StatusPath>>,
      <<Host, "u", StatusPath, "u">>,
      <<Host, "u">> }

\* tweet_url_pattern.findall(text), line 65: the matches of
\* https?://(www\.)?(twitter|x)\.com/[a-zA-Z0-9_]+/status/\d+ , leftmost first.
findall(text) ==
    LET MatchEndAt(i) ==
            LET h == TokenRunEnd(text, i + 1, Handle)
                d == TokenRunEnd(text, h + 1, Digits)
            IN IF /\ text[i] = Host
                  /\ h > i + 1
                  /\ h <= Len(text) /\ text[h] = StatusPath
                  /\ d > h + 1
               THEN d ELSE 0
        RECURSIVE scan(_)
        scan(i) == IF i > Len(text) THEN <<>>
                   ELSE IF MatchEndAt(i) > 0
                        THEN <<SubSeq(text, i, MatchEndAt(i) - 1)>> \o scan(MatchEndAt(i))
                        ELSE scan(i + 1)
    IN scan(1)

FETCHING == "Fetching tweet..."
CREATING == "Creating image..."
COULD_NOT_FETCH == "Could not fetch this tweet. Please check the URL and try again."
WENT_WRONG == "Something went wrong. Please try again later."

\* Line 82: process_tweet posts the status message; reply_text is outside
\* the try block.
StartProcessTweet(u, ok) ==
    /\ msg' = msg + 1
    /\ tweet_url' = u
    /\ tweet_data' = [state |-> "pending", data |-> NoTweet]
    /\ http_requests' = 0
    /\ generate_calls' = 0
    /\ IF ok THEN status' = FETCHING /\ bpc' = "extract" /\ outcome' = "running"
             ELSE status' = "none" /\ bpc' = "idle" /\ outcome' = "raised"
    /\ UNCHANGED photos

\* handle_message, lines 57-78, up to the first await of process_tweet.
HandleMessage ==
    /\ bpc = "idle"
    /\ msg < MaxMessages
    /\ \E text \in Urls, ok \in BOOLEAN :
          LET urls == findall(text)
          IN IF urls = <<>>
             THEN /\ msg' = msg + 1
                  /\ tweet_url' = <<>>
                  /\ tweet_data' = [state |-> "pending", data |-> NoTweet]
                  /\ http_requests' = 0
                  /\ generate_calls' = 0
                  /\ status' = "none"
                  /\ outcome' = IF ok THEN "returned" ELSE "raised"
                  /\ UNCHANGED <<bpc, photos>>
             ELSE StartProcessTweet(urls[1], ok)
    /\ UNCHANGED <<parseVars, renderVars, genVars, fmtVars, iniVars, dateVars, envVars>>

\* process_tweet called with any url.
ProcessTweet ==
    /\ bpc = "idle"
    /\ msg < MaxMessages
    /\ \E u \in Urls, ok \in BOOLEAN : StartProcessTweet(u, ok)
    /\ UNCHANGED <<parseVars, renderVars, genVars, fmtVars, iniVars, dateVars, envVars>>

\* extract, lines 73-93: without an id it returns None; with one it issues
\* the GET.
Extract ==
    /\ bpc = "extract"
    /\ IF _extract_tweet_id(tweet_url) = <<>>
       THEN tweet_data' = NoData /\ bpc' = "nodata" /\ UNCHANGED http_requests
       ELSE http_requests' = http_requests + 1 /\ bpc' = "http" /\ UNCHANGED tweet_data
    /\ UNCHANGED <<tweet_url, status, generate_calls, photos, outcome, msg>>
    /\ UNCHANGED <<parseVars, renderVars, genVars, fmtVars, iniVars, dateVars, envVars>>

\* extract, lines 93-106: the response arrives (or the request raises).
ExtractResponse ==
    /\ bpc = "http"
    /\ \E resp \in ApiResponses :
          /\ tweet_data' = ExtractFromResponse(resp)
          /\ bpc' = IF ExtractFromResponse(resp).state = "None"
                    THEN "nodata" ELSE "creating"
    /\ UNCHANGED <<tweet_url, status, http_requests, generate_calls, photos, outcome, msg>>
    /\ UNCHANGED <<parseVars, renderVars, genVars, fmtVars, iniVars, dateVars, envVars>>

\* Lines 89-92: `if not tweet_data`.
CouldNotFetch ==
    /\ bpc = "nodata"
    /\ \E ok \in BOOLEAN :
          IF ok THEN status' = COULD_NOT_FETCH /\ outcome' = "returned" /\ bpc' = "idle"
                ELSE bpc' = "except" /\ UNCHANGED <<status, outcome>>
    /\ UNCHANGED <<tweet_url, tweet_data, http_requests, generate_calls, photos, msg>>
    /\ UNCHANGED <<parseVars, renderVars, genVars, fmtVars, iniVars, dateVars, envVars>>

\* Lines 96-100: the status is edited and generate is called on the shared
\* ImageGenerator; its locals start afresh.
CallGenerate ==
    /\ bpc = "creating"
    /\ \E ok \in BOOLEAN :
          IF ok
          THEN /\ status' = CREATING
               /\ bpc' = "generate"
               /\ generate_calls' = generate_calls + 1
               /\ call' = call + 1
               /\ tweet' = tweet_data.data
               /\ gpc' = "start"
               /\ current_y' = YInt(0)
               /\ avatar' = "none"
               /\ fetched' = <<>>
               /\ pastes' = <<>>
               /\ sections' = <<>>
               /\ gerror' = "none"
               /\ gresult' = NoPath
               /\ UNCHANGED results
          ELSE /\ bpc' = "except"
               /\ UNCHANGED <<status, generate_calls, genVars>>
    /\ UNCHANGED <<tweet_url, tweet_data, http_requests, photos, outcome, msg>>
    /\ UNCHANGED <<parseVars, renderVars, fmtVars, iniVars, dateVars, envVars>>

\* Lines 100-104: generate returned and the status message is deleted, or
\* generate raised.
Generated ==
    /\ bpc = "generate"
    /\ \/ /\ gpc = "returned"
          /\ \E ok \in BOOLEAN :
                IF ok THEN status' = "deleted" /\ bpc' = "photo"
                      ELSE bpc' = "except" /\ UNCHANGED status
       \/ /\ gpc = "raised"
          /\ bpc' = "except"
          /\ UNCHANGED status
    /\ UNCHANGED <<tweet_url, tweet_data, http_requests, generate_calls, photos, outcome, msg>>
    /\ UNCHANGED <<parseVars, renderVars, genVars, fmtVars, iniVars, dateVars, envVars>>

\* Lines 106-115: the file at image_path is opened and sent.
SendPhoto ==
    /\ bpc = "photo"
    /\ \E ok \in BOOLEAN :
          IF ok
          THEN /\ photos' = Append(photos, [msg |-> msg, path |-> gresult,
                                            by |-> files[gresult].by,
                                            state |-> files[gresult].state])
               /\ outcome' = "returned"
               /\ bpc' = "idle"
          ELSE /\ bpc' = "except"
               /\ UNCHANGED <<photos, outcome>>
    /\ UNCHANGED <<tweet_url, status, tweet_data, http_requests, generate_calls, msg>>
    /\ UNCHANGED <<parseVars, renderVars, genVars, fmtVars, iniVars, dateVars, envVars>>

\* Lines 117-120: the handler of `except Exception` edits the status
\* message; editing a deleted message raises, as can any request.
Except ==
    /\ bpc = "except"
    /\ \E ok \in BOOLEAN :
          IF ok /\ status # "deleted"
          THEN status' = WENT_WRONG /\ outcome' = "returned"
          ELSE outcome' = "raised" /\ UNCHANGED status
    /\ bpc' = "idle"
    /\ UNCHANGED <<tweet_url, tweet_data, http_requests, generate_calls, photos, msg>>
    /\ UNCHANGED <<parseVars, renderVars, genVars, fmtVars, iniVars, dateVars, envVars>>

\* The wall clock passes a second boundary.
Tick ==
    /\ now < MaxClock
    /\ now' = now + 1
    /\ UNCHANGED files
    /\ UNCHANGED <<parseVars, renderVars, genVars, botVars, fmtVars, iniVars, dateVars>>

NextBot ==
    \/ HandleMessage
    \/ ProcessTweet
    \/ Extract
    \/ ExtractResponse
    \/ CouldNotFetch
    \/ CallGenerate
    \/ GenBegin
    \/ GenHeaderText
    \/ GenImage
    \/ GenFooter
    \/ GenSaveReturn
    \/ GenSaveFails
    \/ Generated
    \/ SendPhoto
    \/ Except
    \/ Tick

InitBot ==
    /\ ParseIdle
    /\ RenderIdle
    /\ GenIdle
    /\ BotIdle
    /\ FmtIdle
    /\ IniIdle
    /\ DateIdle
    /\ EnvInit

SpecBot == InitBot /\ [][NextBot]_vars

(***************************************************************************)
(* Claims about the bot.                                                   *)
(***************************************************************************)
\* C7: any two generate calls on the shared ImageGenerator, also two that
\* finish within the same clock second, write to distinct file paths, and
\* the file a call returned stays the complete file of that call.
C7_RendersDoNotInterfere ==
    /\ \A j, k \in 1..Len(results) :
          j # k => results[j].path # results[k].path
    /\ \A k \in 1..Len(results) :
          /\ results[k].path \in DOMAIN files
          /\ files[results[k].path] = [by |-> results[k].call, state |-> "complete"]

\* '/status/<digits>' occurs in the url.
HasNumericId(u) ==
    \E i \in 1..(Len(u) - 1) : u[i] = StatusPath /\ u[i + 1] \in Digits

PhotosOf(m) == { k \in 1..Len(photos) : photos[k].msg = m }

\* The state part of C8.
C8_State ==
    /\ ~HasNumericId(tweet_url) =>
          /\ http_requests = 0
          /\ tweet_data.state # "data"
          /\ bpc \notin {"http", "creating", "generate", "photo"}
          /\ (status # "none" /\ bpc # "extract") => tweet_data.state = "None"
    /\ tweet_data.state = "None" =>
          /\ generate_calls = 0
          /\ PhotosOf(msg) = {}
          /\ bpc \in {"nodata", "except", "idle"}
\* The step part of C8.
C8_Step ==
    tweet_data'.state = "None" =>
        /\ UNCHANGED <<genVars, photos, files>>
        /\ tweet_data.state = "None" => UNCHANGED http_requests
\* C8: for a url without '/status/<digits>' extract returns None and no GET
\* is ever issued; and while tweet_data is None for a message (no id,
\* non-200 status, request exception, error payload), generate is not
\* called for it, no photo is sent for it, and no step starts a generate
\* call, writes a file or sends a photo.
C8_FailureNeverReachesEngine == []C8_State /\ [][C8_Step]_vars

\* A message whose url has no id ended with "Could not fetch", no request
\* and no generate call, after an earlier message was answered with a photo.
C8_Witness ==
    /\ msg = 2
    /\ tweet_url # <<>>
    /\ ~HasNumericId(tweet_url)
    /\ tweet_data.state = "None"
    /\ status = COULD_NOT_FETCH
    /\ outcome = "returned"
    /\ http_requests = 0
    /\ photos # <<>>
    /\ call = 1

(***************************************************************************)
(* ImageGenerator._format_number                                           *)
(***************************************************************************)
DigitChars == <<"0", "1", "2", "3", "4", "5", "6", "7", "8", "9">>

\* str(n) for n >= 0.
RECURSIVE str(_)
str(n) == IF n < 10 THEN <<DigitChars[n + 1]>>
          ELSE str(n \div 10) \o <<DigitChars[(n % 10) + 1]>>

\* The number of bits of i >= 1.
RECURSIVE BitLength(_)
BitLength(i) == IF i <= 1 THEN 1 ELSE 1 + BitLength(i \div 2)

\* (r * 2^f) mod d.
RECURSIVE ShiftMod(_, _, _)
ShiftMod(r, f, d) == IF f = 0 THEN r % d ELSE ShiftMod((2 * r) % d, f - 1, d)

\* The sign of float(n / d) - n / d for n >= d: true division gives the
\* double nearest to the quotient; a double with integer part of b bits has
\* 53 - b fraction bits.
DivisionError(n, d) ==
    LET f   == 53 - BitLength(n \div d)
        rem == ShiftMod(n % d, f, d)
    IN IF rem = 0 THEN 0 ELSE IF 2 * rem > d THEN 1 ELSE -1

\* The tenths of n / d, truncated.
Tenths_Truncate(n, d) == (10 * n) \div d

\* f'{n / d:.1f}' as a number of tenths: the double n / d is rounded to the
\* nearest tenth, and to the even one when it lies exactly half-way.  n / d
\* differs from half-way by less than the division's error only when the
\* quotient itself is half-way, and then the error decides.
Tenths(n, d) ==
    LET lo  == (10 * n) \div d
        rem == (10 * n) % d
    IN IF 2 * rem < d THEN lo
       ELSE IF 2 * rem > d THEN lo + 1
       ELSE CASE DivisionError(n, d) = 1  -> lo + 1
              [] DivisionError(n, d) = -1 -> lo
              [] OTHER -> IF lo % 2 = 0 THEN lo ELSE lo + 1

OneDecimal(t) == str(t \div 10) \o <<".">> \o str(t % 10)

_format_number(n) ==
    IF n >= 1000000 THEN OneDecimal(Tenths(n, 1000000)) \o <<"M">>
    ELSE IF n >= 1000 THEN OneDecimal(Tenths(n, 1000)) \o <<"K">>
    ELSE str(n)

MaxDelta == 10

FmtBases == { 0, 990, 1045, 1145, 1245, 1745, 99945, 999945, 999995,
              1049995, 1249995, 1499995, 99949995 }

FmtInputs == { b + d : b \in FmtBases, d \in 0..MaxDelta }

InitFmt ==
    /\ ParseIdle
    /\ RenderIdle
    /\ GenIdle
    /\ BotIdle
    /\ IniIdle
    /\ DateIdle
    /\ EnvInit
    /\ num \in FmtInputs
    /\ formatted = <<>>
    /\ fpc = "call"

FormatNumber ==
    /\ fpc = "call"
    /\ formatted' = _format_number(num)
    /\ fpc' = "returned"
    /\ UNCHANGED num
    /\ UNCHANGED <<parseVars, renderVars, genVars, botVars, iniVars, dateVars, envVars>>

NextFmt == FormatNumber

SpecFmt == InitFmt /\ [][NextFmt]_vars

(***************************************************************************)
(* Claims about _format_number.                                            *)
(***************************************************************************)
\* The number a string of decimal digits denotes, -1 if it is not the
\* canonical decimal string of a number.
DigitValue(c) == CHOOSE v \in 0..9 : DigitChars[v + 1] = c
IsDigits(s)   == s # <<>> /\ \A k \in 1..Len(s) : \E v \in 0..9 : DigitChars[v + 1] = s[k]
RECURSIVE Denotes(_)
Denotes(s) == IF Len(s) = 1 THEN DigitValue(s[1])
              ELSE 10 * Denotes(SubSeq(s, 1, Len(s) - 1)) + DigitValue(s[Len(s)])
Canonical(s) == IsDigits(s) /\ (Len(s) > 1 => s[1] # "0")

\* s is <integer>.<digit><suffix>, denoting a number of tenths no further
\* than half a tenth from n / d.
IsOneDecimalOf(s, n, d, suffix) ==
    /\ Len(s) >= 4
    /\ s[Len(s)] = suffix
    /\ s[Len(s) - 2] = "."
    /\ Canonical(SubSeq(s, 1, Len(s) - 3))
    /\ IsDigits(<<s[Len(s) - 1]>>)
    /\ LET t == 10 * Denotes(SubSeq(s, 1, Len(s) - 3)) + DigitValue(s[Len(s) - 1])
       IN /\ 2 * (t * d - 10 * n) <= d
          /\ 2 * (10 * n - t * d) <= d

\* C10: _format_number(n) is the decimal string of n for n < 1,000, the
\* value of n / 1,000 to one decimal followed by K for 1,000 <= n <
\* 1,000,000, the value of n / 1,000,000 to one decimal followed by M from
\* 1,000,000 on; 0 gives "0", 999 "999", 1000 "1.0K", 1500000 "1.5M".
C10_FormatNumber ==
    fpc = "returned" =>
        /\ num < 1000 => Canonical(formatted) /\ Denotes(formatted) = num
        /\ (num >= 1000 /\ num < 1000000) => IsOneDecimalOf(formatted, num, 1000, "K")
        /\ num >= 1000000 => IsOneDecimalOf(formatted, num, 1000000, "M")
        /\ num = 0 => formatted = <<"0">>
        /\ num = 999 => formatted = <<"9", "9", "9">>
        /\ num = 1000 => formatted = <<"1", ".", "0", "K">>
        /\ num = 1500000 => formatted = <<"1", ".", "5", "M">>

\* 1500000 was formatted as "1.5M".
C10_Witness ==
    /\ fpc = "returned"
    /\ num = 1500000
    /\ formatted = <<"1", ".", "5", "M">>

(***************************************************************************)
(* ImageGenerator._get_initials                                            *)
(***************************************************************************)
NameChars == {"j", "d", "A", " "}

\* s[:k]
Slice(s, k) == SubSeq(s, 1, IF k <= Len(s) THEN k ELSE Len(s))

\* str.upper(), one character.
UpperChar(c) == CASE c = "j" -> "J" [] c = "d" -> "D" [] OTHER -> c
upper(s) == [k \in 1..Len(s) |-> UpperChar(s[k])]

\* parts = name.strip().split(); with two parts or more their first
\* characters, else the first two characters of `name` itself (one when it
\* is shorter).
_get_initials(nm) ==
    LET nparts == SplitWs(nm)
    IN IF Len(nparts) >= 2
       THEN <<UpperChar(nparts[1][1]), UpperChar(nparts[2][1])>>
       ELSE IF Len(nm) >= 2 THEN upper(Slice(nm, 2))
       ELSE upper(Slice(nm, 1))

MaxNameLen == 4

Names == UNION { [1..k -> NameChars] : k \in 0..MaxNameLen }

InitInitials ==
    /\ ParseIdle
    /\ RenderIdle
    /\ GenIdle
    /\ BotIdle
    /\ FmtIdle
    /\ DateIdle
    /\ EnvInit
    /\ author_name \in Names
    /\ initials = <<>>
    /\ ipc = "call"

GetInitials ==
    /\ ipc = "call"
    /\ initials' = _get_initials(author_name)
    /\ ipc' = "returned"
    /\ UNCHANGED author_name
    /\ UNCHANGED <<parseVars, renderVars, genVars, botVars, fmtVars, dateVars, envVars>>

NextInitials == GetInitials

SpecInitials == InitInitials /\ [][NextInitials]_vars

\* The space-delimited tokens of a name: its maximal runs without a space.
Tokens(nm) == SelectSeq(Split(nm, " "), LAMBDA t : t # <<>>)

\* C11: _get_initials gives the uppercased first letters of the first two
\* space-delimited tokens of a name with two tokens or more, the uppercased
\* first two characters of the token of a one-token name (one character for
\* a token of length 1), also with leading, trailing or repeated spaces;
\* the result never holds a whitespace character.
C11_Initials ==
    ipc = "returned" =>
        LET toks == Tokens(author_name)
        IN /\ Len(toks) >= 2 =>
                 initials = <<UpperChar(toks[1][1]), UpperChar(toks[2][1])>>
           /\ Len(toks) = 1 =>
                 initials = upper(SubSeq(toks[1], 1, IF Len(toks[1]) >= 2 THEN 2 ELSE 1))
           /\ \A k \in 1..Len(initials) : initials[k] \notin {" ", "\t", "\n", "\r"}

(***************************************************************************)
(* ImageGenerator._format_date and _format_date_full                       *)
(***************************************************************************)
UpperLetters ==
    <<"A", "B", "C", "D", "E", "F", "G", "H", "I", "J", "K", "L", "M", "N", "O", "P", "Q", "R", "S", "T", "U", "V", "W", "X", "Y", "Z">>
LowerLetters ==
    <<"a", "b", "c", "d", "e", "f", "g", "h", "i", "j", "k", "l", "m", "n", "o", "p", "q", "r", "s", "t", "u", "v", "w", "x", "y", "z">>

\* str.lower(), as strptime compares names without regard to case.
LowerChar(c) ==
    IF \E k \in 1..26 : UpperLetters[k] = c
    THEN LowerLetters[CHOOSE k \in 1..26 : UpperLetters[k] = c]
    ELSE c
lower(s) == [k \in 1..Len(s) |-> LowerChar(s[k])]

\* The full month names of the C locale; %b is the first three letters.
MonthNames ==
    << <<"J", "a", "n", "u", "a", "r", "y">>,
       <<"F", "e", "b", "r", "u", "a", "r", "y">>,
       <<"M", "a", "r", "c", "h">>,
       <<"A", "p", "r", "i", "l">>,
       <<"M", "a", "y">>,
       <<"J", "u", "n", "e">>,
       <<"J", "u", "l", "y">>,
       <<"A", "u", "g", "u", "s", "t">>,
       <<"S", "e", "p", "t", "e", "m", "b", "e", "r">>,
       <<"O", "c", "t", "o", "b", "e", "r">>,
       <<"N", "o", "v", "e", "m", "b", "e", "r">>,
       <<"D", "e", "c", "e", "m", "b", "e", "r">> >>

DayNames ==
    { <<"M", "o", "n">>, <<"T", "u", "e">>, <<"W", "e", "d">>, <<"T", "h", "u">>, <<"F", "r", "i">>, <<"S", "a", "t">>, <<"S", "u", "n">> }

DaysInMonth == <<31, 28, 31, 30, 31, 30, 31, 31, 30, 31, 30, 31>>

IsLeap(y) == (y % 4 = 0 /\ y % 100 # 0) \/ y % 400 = 0

AllDigits(s) == s # <<>> /\ \A k \in 1..Len(s) : \E v \in 0..9 : DigitChars[v + 1] = s[k]

\* int(s) for a string of digits.
RECURSIVE ToInt(_)
ToInt(s) ==
    IF s = <<>> THEN 0
    ELSE 10 * ToInt(SubSeq(s, 1, Len(s) - 1))
         + (CHOOSE v \in 0..9 : DigitChars[v + 1] = s[Len(s)])

\* A number of one or two digits within lo..hi, or -1.
TwoDigit(s, lo, hi) ==
    IF AllDigits(s) /\ Len(s) <= 2 /\ ToInt(s) >= lo /\ ToInt(s) <= hi
    THEN ToInt(s) ELSE -1

\* %b: the number of the month, or 0.
MonthOf(f) ==
    LET ms == { m \in 1..12 : lower(SubSeq(MonthNames[m], 1, 3)) = lower(f) }
    IN IF ms = {} THEN 0 ELSE CHOOSE m \in ms : TRUE

\* %z: Z, or a sign, two digits, an optional colon and two digits below 60;
\* the offset has to be less than 24 hours.
IsZone(f) ==
    \/ f = <<"Z">>
    \/ LET g == SelectSeq(f, LAMBDA c : c # ":")
       IN /\ Len(f) \in {5, 6}
          /\ f[1] \in {"+", "-"}
          /\ Len(f) = 6 => f[4] = ":"
          /\ Len(g) = 5
          /\ AllDigits(SubSeq(g, 2, 5))
          /\ ToInt(SubSeq(g, 2, 3)) <= 23
          /\ ToInt(SubSeq(g, 4, 5)) <= 59

NoDate == [ok |-> FALSE, year |-> 0, month |-> 0, day |-> 0, hour |-> 0, minute |-> 0]

\* dt.strptime(date_str, "%a %b %d %H:%M:%S %z %Y"): the fields stand
\* between runs of whitespace, with none before the first or after the last;
\* a ValueError gives NoDate.
strptime(ds) ==
    LET f == SplitWs(ds)
    IN IF ds = <<>> \/ IsSpace(ds[1]) \/ IsSpace(ds[Len(ds)]) \/ Len(f) # 6
       THEN NoDate
       ELSE LET hms == Split(f[4], ":")
                mo  == MonthOf(f[2])
                d   == TwoDigit(f[3], 1, 31)
                y   == IF AllDigits(f[6]) /\ Len(f[6]) = 4 THEN ToInt(f[6]) ELSE 0
            IN IF /\ lower(f[1]) \in { lower(n) : n \in DayNames }
                  /\ mo > 0
                  /\ d > 0
                  /\ Len(hms) = 3
                  /\ TwoDigit(hms[1], 0, 23) >= 0
                  /\ TwoDigit(hms[2], 0, 59) >= 0
                  /\ TwoDigit(hms[3], 0, 59) >= 0
                  /\ IsZone(f[5])
                  /\ y >= 1
                  /\ d <= DaysInMonth[mo] + (IF mo = 2 /\ IsLeap(y) THEN 1 ELSE 0)
               THEN [ok |-> TRUE, year |-> y, month |-> mo, day |-> d,
                     hour |-> TwoDigit(hms[1], 0, 23), minute |-> TwoDigit(hms[2], 0, 59)]
               ELSE NoDate

\* %d, %I, %M: two digits, zero padded.
Pad2(n) == <<DigitChars[(n \div 10) + 1], DigitChars[(n % 10) + 1]>>

\* parsed.strftime("%b %d, %Y")
StrfShort(p) ==
    SubSeq(MonthNames[p.month], 1, 3) \o <<" ">> \o Pad2(p.day) \o <<",", " ">> \o str(p.year)

\* parsed.strftime("%B %d, %Y at %I:%M %p")
StrfFull(p) ==
    MonthNames[p.month] \o <<" ">> \o Pad2(p.day) \o <<",", " ">> \o str(p.year)
    \o <<" ", "a", "t", " ">>
    \o Pad2(IF p.hour % 12 = 0 THEN 12 ELSE p.hour % 12) \o <<":">> \o Pad2(p.minute)
    \o <<" ">> \o (IF p.hour < 12 THEN <<"A", "M">> ELSE <<"P", "M">>)

_format_date(ds) ==
    IF ds = <<>> THEN <<>>
    ELSE IF strptime(ds).ok THEN StrfShort(strptime(ds))
    ELSE IF Len(ds) > 12 THEN Slice(ds, 12) ELSE ds

_format_date_full(ds) ==
    IF ds = <<>> THEN <<>>
    ELSE IF strptime(ds).ok THEN StrfFull(strptime(ds))
    ELSE ds

(***************************************************************************)
(* Inputs of the date helpers: created_at strings.                         *)
(***************************************************************************)
DowFields   == { <<"T", "h", "u">>,
                <<"X", "y", "z">> }
MonFields   == { <<"O", "c", "t">>,
                <<"f", "e", "b">>,
                <<"O", "k", "t">> }
DayFields   == { <<"1", "3">>,
                <<"5">>,
                <<"2", "9">>,
                <<"3", "2">> }
TimeFields  == { <<"2", "0", ":", "4", "7", ":", "0", "8">>,
                <<"0", ":", "0", "5", ":", "0", "0">>,
                <<"1", "2", ":", "3", "0", ":", "5", "9">>,
                <<"2", "4", ":", "0", "0", ":", "0", "0">> }
ZoneFields  == { <<"+", "0", "0", "0", "0">>,
                <<"-", "0", "5", ":", "3", "0">>,
                <<"Z">>,
                <<"U", "T", "C">> }
YearFields  == { <<"2", "0", "2", "2">>,
                <<"2", "0", "2", "4">>,
                <<"2", "2">> }

OddDates ==
    { <<>>,
      <<"2", "0", "2", "2", "-", "1", "0", "-", "1", "3", "T", "2", "0", ":", "4", "7", ":", "0", "8", "Z">>,
      <<" ", "T", "h", "u", " ", "O", "c", "t", " ", "1", "3", " ", "2", "0", ":", "4", "7", ":", "0", "8", " ", "+", "0", "0", "0", "0", " ", "2", "0", "2", "2">>,
      <<"T", "h", "u", " ", "O", "c", "t", " ", "1", "3", " ", "2", "0", ":", "4", "7", ":", "0", "8", " ", "+", "0", "0", "0", "0", " ", "2", "0", "2", "2", " ">>,
      <<"T", "h", "u", " ", " ", "O", "c", "t", " ", "1", "3", " ", "2", "0", ":", "4", "7", ":", "0", "8", " ", "+", "0", "0", "0", "0", " ", "2", "0", "2", "2">>,
      <<"T", "h", "u", " ", "O", "c", "t", " ", "1", "3">>,
      <<"T", "h", "u", " ", "O", "c", "t", " ", "1", "3", " ", "2">>,
      <<"y", "e", "s", "t", "e", "r", "d", "a", "y">> }

DateStrs ==
    { Join(<<a, b, d, t, z, y>>, <<" ">>) :
        a \in DowFields, b \in MonFields, d \in DayFields,
        t \in TimeFields, z \in ZoneFields, y \in YearFields }
    \cup OddDates

InitDate ==
    /\ ParseIdle
    /\ RenderIdle
    /\ GenIdle
    /\ BotIdle
    /\ FmtIdle
    /\ IniIdle
    /\ EnvInit
    /\ date_str \in DateStrs
    /\ date_short = <<>>
    /\ date_full = <<>>
    /\ dpc = "call"

\* generate, line 183: the header date.
FormatDate ==
    /\ dpc = "call"
    /\ date_short' = _format_date(date_str)
    /\ dpc' = "short"
    /\ UNCHANGED <<date_str, date_full>>
    /\ UNCHANGED <<parseVars, renderVars, genVars, botVars, fmtVars, iniVars, envVars>>

\* generate, line 273: the footer date.
FormatDateFull ==
    /\ dpc = "short"
    /\ date_full' = _format_date_full(date_str)
    /\ dpc' = "returned"
    /\ UNCHANGED <<date_str, date_short>>
    /\ UNCHANGED <<parseVars, renderVars, genVars, botVars, fmtVars, iniVars, envVars>>

NextDate ==
    \/ FormatDate
    \/ FormatDateFull

SpecDate == InitDate /\ [][NextDate]_vars

IsPrefix(a, b) == Len(a) <= Len(b) /\ a = SubSeq(b, 1, Len(a))

\* C12: for every created_at string both _format_date and _format_date_full
\* return: the formatted date when the string parses in the fixed format,
\* and else a truncated prefix of the string (at most 12 characters in the
\* header; in the footer at least not the whole of a string longer than
\* that).
C12_DateFallback ==
    dpc = "returned" =>
        IF strptime(date_str).ok
        THEN /\ date_short = StrfShort(strptime(date_str))
             /\ date_full = StrfFull(strptime(date_str))
        ELSE /\ IsPrefix(date_short, date_str)
             /\ Len(date_short) <= 12
             /\ IsPrefix(date_full, date_str)
             /\ Len(date_str) > 12 => date_full # date_str

(***************************************************************************)
(* Claims about the layout and the vertical advance of _render_text.       *)
(***************************************************************************)
\* The draw.text calls made before the j-th at the same y.
RunsBefore(j) == { k \in 1..(j - 1) : draws[k].y = draws[j].y }

DrawnText == Concat([k \in 1..Len(draws) |-> draws[k].text])

\* The paragraphs of the text that are not blank, in order.
Paragraphs(text) == SelectSeq(RenderLines(text), LAMBDA ln : ~IsBlank(ln))

\* C13: on every visual line the first run is drawn at the left margin x and
\* each following run at x plus the measured widths of the runs before it
\* on that line; and the drawn runs, concatenated in draw order, are the
\* text of the paragraphs, spaces included.
C13_ContiguousRuns ==
    /\ \A j \in 1..Len(draws) :
          draws[j].x = rargs.x + SumWidths(rargs.font, draws, RunsBefore(j))
    /\ rpc = "returned" => DrawnText = Concat(Paragraphs(rargs.text))

\* The lines iterated over so far, and the blank ones among them.
LinesDone  == SubSeq(RenderLines(rargs.text), 1, Len(RenderLines(rargs.text)) - Len(rlines))
BlanksDone == Len(SelectSeq(LinesDone, IsBlank))

\* The visual lines drawn so far: the distinct y of the draw.text calls.
VisualLines == { draws[k].y : k \in 1..Len(draws) }

\* C14: the advance of y over the start y (0 here) is zero for an empty
\* text; otherwise it is half a line_height for every blank line iterated
\* over, which draws nothing, plus line_height for every visual line the
\* paragraphs were wrapped into.
C14_VerticalAdvance ==
    /\ rargs.text = <<>> => ry = YInt(0) /\ draws = <<>>
    /\ rargs.text # <<>> =>
          YHalves(ry) = line_height * BlanksDone
                        + 2 * line_height * Cardinality(VisualLines)

(***************************************************************************)
(* Claims about failures in process_tweet.                                 *)
(***************************************************************************)
\* C15: when a failure of a step after the status message was posted
\* reaches the except handler, process_tweet ends with the status message
\* reading "Something went wrong. Please try again later." and returns
\* normally, also when the status message was deleted before the failure.
\* (Only the edit request itself failing on an existing status message is
\* left out of the statement.)
C15_FailureShowsGenericMessage ==
    [][(bpc = "except" /\ bpc' # "except") =>
          \/ status' = WENT_WRONG /\ outcome' = "returned"
          \/ status # "deleted" /\ outcome' = "raised"]_vars

\* C16: a file exists at an output path only once the whole image was
\* written to it (no partial file is ever there, also after a failed
\* write), and generate returns a path only for a completely written file.
C16_NoPartialFile ==
    /\ \A p \in DOMAIN files : files[p].state = "complete"
    /\ gpc = "returned" =>
          /\ gresult \in DOMAIN files
          /\ files[gresult].state = "complete"

IsWholePixel(y) == ~y.float /\ y.half = 0

\* C17: at every point of generate the vertical cursor is an integer: the y
\* _render_text returned, the cursor of every section drawn and of every
\* image paste; and it never decreases from one section to the next.
C17_IntegerCursor ==
    /\ IsWholePixel(current_y)
    /\ \A k \in 1..Len(sections) :
          /\ IsWholePixel(sections[k].at)
          /\ IsWholePixel(sections[k].y)
          /\ YHalves(sections[k].at) <= YHalves(sections[k].y)
          /\ k > 1 => YHalves(sections[k - 1].y) <= YHalves(sections[k].at)
    /\ \A k \in 1..Len(pastes) : IsWholePixel(pastes[k].y)

====
